---- MODULE Spec2Model ----
(***************************************************************************)
(* Office Location Planner (src/src/app/page.tsx): the roster import, the  *)
(* geocoding pass, the commute recomputation, the office address search    *)
(* and the location optimizer, as a state machine.                         *)
(*                                                                         *)
(* Every await of the source (a fetch, a setTimeout promise) is a position *)
(* of the process that runs it; everything between two awaits is one step. *)
(* employeesRef.current is taken to equal employees: the effect of lines   *)
(* 284-287 runs with the render that follows each setEmployees.            *)
(* Optional values (number | undefined, number | null, string | undefined) *)
(* are sequences of length at most one: None is undefined/null, Some(x) a  *)
(* present value.  Coordinates are <<lng, lat>> on an integer grid.        *)
(***************************************************************************)
EXTENDS Integers, Sequences, FiniteSets, TLC

None == <<>>
Some(x) == <<x>>

(* ------------------------------ bounds -------------------------------- *)

\* user events (file uploads, drags of the office marker, address searches,
\* clicks on the optimize button) in one behaviour; each starts at most one
\* import and one recomputation
MaxEvents == 3
\* file uploads among the user events
MaxUploads == 1
\* recomputations in flight at a time
MaxRuns == 2
\* service calls (geocoding, routing) of one behaviour that do not succeed
MaxFailures == 1
\* files uploaded in the specification with re-uploads
MaxReuploads == 2

(* --------------------------- environment ------------------------------ *)

\* useState initial value of officeLocation (Sydney CBD)
DefaultOffice == <<151, -33>>

\* positions the office marker can be dropped at
DragTargets == {<<151, -37>>}

\* texts the office address field can hold when a search is started
OfficeAddresses == {"Home", "Nowhere"}

\* The geocoding service: the first feature's center for an address text,
\* None when the answer has no feature.  "Zero" resolves to a point on the
\* equator, "Far" to a latitude outside [-90, 90], "Nowhere" to nothing.
GeocodeCenter(address) ==
  CASE address = "Home" -> Some(<<151, -34>>)
    [] address = "Client" -> Some(<<152, -34>>)
    [] address = "Zero" -> Some(<<151, 0>>)
    [] address = "Far" -> Some(<<151, 95>>)
    [] OTHER -> None

\* uploaded files: lines of fields (line.split(',')), the first the header
Header == <<"address", "name", "client">>
CsvFiles ==
  { <<Header>>,
    <<Header, <<"Home", "Ann", "">> >>,
    <<Header, <<"Home", "Ann", "Client">> >>,
    <<Header, <<"Home", "Ann", "Zero">> >>,
    <<Header, <<"Home", "Ann", "Nowhere">> >>,
    <<Header, <<"Nowhere", "Ann", "Client">>, <<"Home", "Bob">> >>,
    <<Header, <<"Far", "Ann", "">>, <<"Far", "Bob", "">> >>,
    <<Header, <<"Far", "", "">>, <<"Home", "Bob", "">> >>,
    <<Header, <<"Zero", "Ann", "">>, <<" ">>, <<"Home", "Bob", "">> >> }

Abs(n) == IF n < 0 THEN -n ELSE n
Dist(a, b) == Abs(a[1] - b[1]) + Abs(a[2] - b[2])

\* Math.round of the non-negative quotient n / d (ties round up)
Round(n, d) == (2 * n + d) \div (2 * d)

(* ------------------------------ state --------------------------------- *)

VARIABLES
  employees,              \* useState employees (employeesRef mirrors it)
  officeLocation,         \* useState officeLocation
  commuteData,            \* useState commuteData
  averageDrivingCommute,  \* useState averageDrivingCommute
  averageTransitCommute,  \* useState averageTransitCommute
  isLoading,              \* useState isLoading
  isSearchingOffice,      \* useState isSearchingOffice
  isOptimizing,           \* useState isOptimizing
  alert,                  \* the text of the last alert() shown
  search,                 \* searchOfficeAddress: the address whose query is in flight
  imports,                \* geocodeEmployees invocations in progress
  runs,                   \* calculateCommuteTimes invocations in progress
  events,                 \* user events so far
  uploads,                \* file uploads so far
  failures,               \* failed service calls so far
  lastRequest,            \* history: arguments of the latest recomputation request
  committedFor            \* history: arguments of the request whose results are committed

vars == <<employees, officeLocation, commuteData, averageDrivingCommute,
          averageTransitCommute, isLoading, isSearchingOffice, isOptimizing,
          alert, search, imports, runs, events, uploads, failures,
          lastRequest,
          committedFor>>

RunIds == 1..MaxRuns
ImportIds == 1..MaxReuploads

(* ----------------------- roster import: parsing ------------------------ *)

\* String.prototype.trim over the field texts of CsvFiles
Trim(s) == CASE s = " " -> "" [] s = " Bob" -> "Bob" [] OTHER -> s

\* line.trim() is empty: the line holds no comma and only white space
LineBlank(line) == Len(line) = 1 /\ Trim(line[1]) = ""

\* values[n]?.trim() with the fields numbered from 1
Field(values, n) == IF n <= Len(values) THEN Trim(values[n]) ELSE ""

\* the placeholder `Employee ${index + 1}`
PlaceholderName(n) == <<"Employee 1", "Employee 2", "Employee 3", "Employee 4">>[n]

\* ParseCsv without the filter on blank lines: every line after the first
\* makes an employee
ParseCsvKeepsBlankLines(lines) ==
  LET rows == SubSeq(lines, 2, Len(lines))
  IN [i \in 1..Len(rows) |->
        [id |-> i - 1,
         address |-> Field(rows[i], 1),
         name |-> IF Field(rows[i], 2) # "" THEN Field(rows[i], 2)
                  ELSE PlaceholderName(i),
         lat |-> None,
         lng |-> None,
         clientOfficeAddress |-> IF Field(rows[i], 3) # "" THEN Some(Field(rows[i], 3))
                                 ELSE None,
         clientOfficeLat |-> None,
         clientOfficeLng |-> None]]

\* lines.slice(1).filter(line => line.trim()).map(...) of handleFileUpload
ParseCsv(lines) ==
  LET rows == SelectSeq(SubSeq(lines, 2, Len(lines)), LAMBDA l : ~LineBlank(l))
  IN [i \in 1..Len(rows) |->
        [id |-> i - 1,
         address |-> Field(rows[i], 1),
         name |-> IF Field(rows[i], 2) # "" THEN Field(rows[i], 2)
                  ELSE PlaceholderName(i),
         lat |-> None,
         lng |-> None,
         clientOfficeAddress |-> IF Field(rows[i], 3) # "" THEN Some(Field(rows[i], 3))
                                 ELSE None,
         clientOfficeLat |-> None,
         clientOfficeLng |-> None]]

(* ------------------------- routing service ---------------------------- *)

Home(e) == <<e.lng[1], e.lat[1]>>
ClientOffice(e) == <<e.clientOfficeLng[1], e.clientOfficeLat[1]>>

\* what a directions answer can be: a route, no route, a non-2xx answer
\* with a JSON error body, or a rejected fetch / unparsable body
DrivingResponses(origin, destination) ==
  { [kind |-> k,
     duration |-> 100 * Dist(origin, destination) + 20,
     distance |-> 1250 * Dist(origin, destination) + 50] :
    k \in {"route", "noroute", "status", "throw"} }

Walk == [travel_mode |-> "WALKING", transit_details |-> None]
Ride(short, name, from, to) ==
  [travel_mode |-> "TRANSIT",
   transit_details |-> Some([short_name |-> short, name |-> name,
                             departure_stop |-> from, arrival_stop |-> to])]
BareRide == [travel_mode |-> "TRANSIT", transit_details |-> None]

\* steps of the first leg of the first itinerary: short trips are walked
LegSteps(origin, destination) ==
  IF Dist(origin, destination) <= 1 THEN <<Walk>>
  ELSE <<Walk, Ride("T1", "North Shore Line", "Central", "Wynyard"), BareRide,
         Ride("", "Bus 370", "Wynyard", "Office"), Walk>>

\* what the upstream directions service can do with one query: a 2xx body
\* with a route, with no route or with a route whose legs are empty, a
\* non-2xx answer, or a rejected fetch / a body that is not JSON
UpstreamResponses(origin, destination) ==
  { [kind |-> k,
     duration |-> 200 * Dist(origin, destination) + 30,
     distance |-> 1250 * Dist(origin, destination) + 50,
     steps |-> LegSteps(origin, destination)] :
    k \in {"route", "noroute", "noleg", "status", "throw"} }

(* --------------------------- transit relay ---------------------------- *)

\* route.ts line 8 and line 14: !value, of a query parameter or of the key
\* (absent, or the empty text)
Missing(value) == value = None \/ value[1] = <<>>

\* process.env.NEXT_PUBLIC_GOOGLE_MAPS_API_KEY of the deployment
GoogleApiKey == Some(<<"key">>)

ParametersRequired == "Origin and destination are required"
KeyNotConfigured == "Google Maps API key not configured"
FailedToFetch == "Failed to fetch transit directions"

\* GET as it would be without the test of response.ok: a non-2xx answer of
\* the upstream service is passed on with status 200
GETWithoutOkTest(origin, destination, googleApiKey, upstream) ==
  IF Missing(origin) \/ Missing(destination)
  THEN [status |-> 400, error |-> Some(ParametersRequired), data |-> None,
        fetched |-> FALSE]
  ELSE IF Missing(googleApiKey)
  THEN [status |-> 500, error |-> Some(KeyNotConfigured), data |-> None,
        fetched |-> FALSE]
  ELSE IF upstream.kind = "throw"
  THEN [status |-> 500, error |-> Some(FailedToFetch), data |-> None,
        fetched |-> TRUE]
  ELSE [status |-> 200, error |-> None, data |-> Some(upstream), fetched |-> TRUE]

\* route.ts lines 3-33: the relay's answer to a request with the query
\* parameters origin and destination, under the key googleApiKey, when the
\* upstream service does `upstream`; `fetched` tells whether the upstream
\* service was called
GET(origin, destination, googleApiKey, upstream) ==
  IF Missing(origin) \/ Missing(destination)
  THEN [status |-> 400, error |-> Some(ParametersRequired), data |-> None,
        fetched |-> FALSE]
  ELSE IF Missing(googleApiKey)
  THEN [status |-> 500, error |-> Some(KeyNotConfigured), data |-> None,
        fetched |-> FALSE]
  ELSE IF upstream.kind \in {"throw", "status"}
  THEN [status |-> 500, error |-> Some(FailedToFetch), data |-> None,
        fetched |-> TRUE]
  ELSE [status |-> 200, error |-> None, data |-> Some(upstream), fetched |-> TRUE]

\* page.tsx lines 132-140: what the page gets from /api/transit: the body of
\* a 2xx answer, a non-2xx answer, or a rejected fetch of the relay itself
TransitResponses(origin, destination) ==
  UNION { LET response == GET(Some(<<origin[2], origin[1]>>),
                              Some(<<destination[2], destination[1]>>),
                              GoogleApiKey, upstream)
          IN { IF response.status = 200 THEN response.data[1]
               ELSE [upstream EXCEPT !.kind = "status"],
               [upstream EXCEPT !.kind = "throw"] } :
          upstream \in UpstreamResponses(origin, destination) }

(* ----------------------- calculateCommuteTimes ------------------------ *)

\* ValidCoords with the range tests left out (a filter on hasCoords alone)
ValidCoordsUnranged(e) == e.lng # None /\ e.lat # None

\* the filter of lines 75-87 (the service answers hold numbers, never NaN)
ValidCoords(e) ==
  /\ e.lng # None /\ e.lat # None
  /\ e.lng[1] >= -180 /\ e.lng[1] <= 180
  /\ e.lat[1] >= -90 /\ e.lat[1] <= 90

EmployeesWithCoords(employeeList) == SelectSeq(employeeList, ValidCoords)

\* InitialResult with every duration and distance defaulted to 0
InitialResultZero(e) ==
  [id |-> e.id, address |-> e.address, name |-> e.name, lat |-> e.lat, lng |-> e.lng,
   clientOfficeAddress |-> e.clientOfficeAddress,
   clientOfficeLat |-> e.clientOfficeLat, clientOfficeLng |-> e.clientOfficeLng,
   drivingDuration |-> Some(0), drivingDistance |-> Some(0),
   transitDuration |-> Some(0), transitDistance |-> Some(0), transitSteps |-> None,
   clientDrivingDuration |-> Some(0), clientDrivingDistance |-> Some(0),
   clientTransitDuration |-> Some(0), clientTransitDistance |-> Some(0),
   clientTransitSteps |-> None]

\* lines 95-107: { ...employee, every commute value null }
InitialResult(e) ==
  [id |-> e.id, address |-> e.address, name |-> e.name, lat |-> e.lat, lng |-> e.lng,
   clientOfficeAddress |-> e.clientOfficeAddress,
   clientOfficeLat |-> e.clientOfficeLat, clientOfficeLng |-> e.clientOfficeLng,
   drivingDuration |-> None, drivingDistance |-> None,
   transitDuration |-> None, transitDistance |-> None, transitSteps |-> None,
   clientDrivingDuration |-> None, clientDrivingDistance |-> None,
   clientTransitDuration |-> None, clientTransitDistance |-> None,
   clientTransitSteps |-> None]

\* minutes: Math.round(seconds / 60)
Minutes(seconds) == Round(seconds, 60)
\* Math.round(km * 10) / 10, kept as tenths of a kilometre
KmTenths(metres) == Round(metres, 100)

\* TransitSummary that stops at the first transit step: one ride instead of
\* the whole sequence
TransitSummaryFirstRide(steps) ==
  LET transit == SelectSeq(steps, LAMBDA s : s.travel_mode = "TRANSIT")
  IN IF transit = <<>> \/ transit[1].transit_details = None THEN None
     ELSE LET d == transit[1].transit_details[1]
          IN Some(<<<<IF d.short_name # "" THEN d.short_name ELSE d.name,
                      d.departure_stop, d.arrival_stop>>>>)

\* lines 154-166: the transit steps with line details, rendered in order;
\* an empty join is null
TransitSummary(steps) ==
  LET transit == SelectSeq(steps, LAMBDA s : s.travel_mode = "TRANSIT")
      mapped == [i \in 1..Len(transit) |->
                   IF transit[i].transit_details # None
                   THEN LET d == transit[i].transit_details[1]
                        IN Some(<<IF d.short_name # "" THEN d.short_name ELSE d.name,
                                  d.departure_stop, d.arrival_stop>>)
                   ELSE None]
      kept == SelectSeq(mapped, LAMBDA m : m # None)
  IN IF kept = <<>> THEN None ELSE Some([i \in 1..Len(kept) |-> kept[i][1]])

\* a value a JavaScript condition takes as true: defined and not 0
Truthy(n) == n # None /\ n[1] # 0

\* HasClientOffice with the test of line 174 left out
HasClientOfficeUnchecked(e) == TRUE

\* line 174: if (employee.clientOfficeLat && employee.clientOfficeLng)
HasClientOffice(e) == Truthy(e.clientOfficeLat) /\ Truthy(e.clientOfficeLng)

\* AfterDriving as it would be if a rejected call rejected the whole batch
\* (Promise.all semantics): every promise ends with its initial result
AfterDrivingRejectsAll(run, k, resp) ==
  IF resp.kind = "throw"
  THEN [run EXCEPT !.pc = [j \in DOMAIN @ |-> "done"],
                   !.result = [j \in DOMAIN @ |-> InitialResult(run.employeesWithCoords[j])]]
  ELSE [run EXCEPT
          !.pc[k] = "delay1",
          !.result[k] =
             IF resp.kind = "route"
             THEN [@ EXCEPT !.drivingDuration = Some(Minutes(resp.duration)),
                            !.drivingDistance = Some(KmTenths(resp.distance))]
             ELSE @]

\* AfterDriving without the outer catch of lines 246-250: the promise of an
\* employee whose driving call has thrown is never settled
AfterDrivingUnsettled(run, k, resp) ==
  IF resp.kind = "throw"
  THEN [run EXCEPT !.pc[k] = "pending"]
  ELSE [run EXCEPT
          !.pc[k] = "delay1",
          !.result[k] =
             IF resp.kind = "route"
             THEN [@ EXCEPT !.drivingDuration = Some(Minutes(resp.duration)),
                            !.drivingDistance = Some(KmTenths(resp.distance))]
             ELSE @]

\* lines 116-127 and 246-250: the driving answer of employee k
AfterDriving(run, k, resp) ==
  IF resp.kind = "throw"
  THEN [run EXCEPT !.pc[k] = "done"]
  ELSE [run EXCEPT
          !.pc[k] = "delay1",
          !.result[k] =
             IF resp.kind = "route"
             THEN [@ EXCEPT !.drivingDuration = Some(Minutes(resp.duration)),
                            !.drivingDistance = Some(KmTenths(resp.distance))]
             ELSE @]

\* lines 127-134: the delay is over, the transit call is issued
AfterDelay1(run, k) == [run EXCEPT !.pc[k] = "transit"]

\* AfterTransit without the try/catch of lines 131-171: a failed call or a
\* non-2xx answer reaches the outer catch and ends the employee's promise
AfterTransitUncaught(run, k, resp) ==
  IF resp.kind \in {"throw", "status"}
  THEN [run EXCEPT !.pc[k] = "done"]
  ELSE [run EXCEPT
          !.pc[k] = IF HasClientOffice(run.employeesWithCoords[k])
                    THEN "clientDriving" ELSE "delay3",
          !.result[k] =
             IF resp.kind = "route"
             THEN [@ EXCEPT !.transitDuration = Some(Minutes(resp.duration)),
                            !.transitDistance = Some(KmTenths(resp.distance)),
                            !.transitSteps = TransitSummary(resp.steps)]
             ELSE @]

\* AfterTransit as it would be if the client office transit call were
\* issued before the client office driving call
AfterTransitThenClientTransit(run, k, resp) ==
  [run EXCEPT
     !.pc[k] = IF HasClientOffice(run.employeesWithCoords[k])
               THEN "clientTransit" ELSE "delay3",
     !.result[k] =
        IF resp.kind = "route"
        THEN [@ EXCEPT !.transitDuration = Some(Minutes(resp.duration)),
                       !.transitDistance = Some(KmTenths(resp.distance)),
                       !.transitSteps = TransitSummary(resp.steps)]
        ELSE @]

\* lines 136-181 and 243-244: the transit answer, then the client office branch
AfterTransit(run, k, resp) ==
  [run EXCEPT
     !.pc[k] = IF HasClientOffice(run.employeesWithCoords[k])
               THEN "clientDriving" ELSE "delay3",
     !.result[k] =
        IF resp.kind = "route"
        THEN [@ EXCEPT !.transitDuration = Some(Minutes(resp.duration)),
                       !.transitDistance = Some(KmTenths(resp.distance)),
                       !.transitSteps = TransitSummary(resp.steps)]
        ELSE @]

\* lines 183-198 and 238-244: the client office driving answer
AfterClientDriving(run, k, resp) ==
  IF resp.kind = "throw"
  THEN [run EXCEPT !.pc[k] = "delay3"]
  ELSE [run EXCEPT
          !.pc[k] = "delay2",
          !.result[k] =
             IF resp.kind = "route"
             THEN [@ EXCEPT !.clientDrivingDuration = Some(Minutes(resp.duration)),
                            !.clientDrivingDistance = Some(KmTenths(resp.distance))]
             ELSE @]

\* lines 194-200: the delay is over, the client office transit call is issued
AfterDelay2(run, k) == [run EXCEPT !.pc[k] = "clientTransit"]

\* lines 202-244: the client office transit answer
AfterClientTransit(run, k, resp) ==
  [run EXCEPT
     !.pc[k] = "delay3",
     !.result[k] =
        IF resp.kind = "route"
        THEN [@ EXCEPT !.clientTransitDuration = Some(Minutes(resp.duration)),
                       !.clientTransitDistance = Some(KmTenths(resp.distance)),
                       !.clientTransitSteps = TransitSummary(resp.steps)]
        ELSE @]

\* lines 244-250: the last delay is over, the employee's promise resolves
AfterDelay3(run, k) == [run EXCEPT !.pc[k] = "done"]

RECURSIVE SumOf(_, _)
\* results.reduce((sum, r) => sum + (r[field] || 0), 0)
SumOf(results, field) ==
  IF results = <<>> THEN 0
  ELSE (IF Truthy(Head(results)[field]) THEN Head(results)[field][1] ELSE 0)
       + SumOf(Tail(results), field)

\* Average with the unresolved legs counted as 0 minutes
AverageOverAll(results, field) ==
  IF Len(results) > 0 THEN Round(SumOf(results, field), Len(results)) ELSE 0

\* Average over the results in which both main office durations are
\* resolved
AverageOfComplete(results, field) ==
  LET valid == SelectSeq(results, LAMBDA r : r.drivingDuration # None
                                             /\ r.transitDuration # None)
  IN IF Len(valid) > 0 THEN Round(SumOf(valid, field), Len(valid)) ELSE 0

\* lines 262-278: Math.round of the mean over the results whose field is not null
Average(results, field) ==
  LET valid == SelectSeq(results, LAMBDA r : r[field] # None)
  IN IF Len(valid) > 0 THEN Round(SumOf(valid, field), Len(valid)) ELSE 0

\* line 866: the comparator's operand (r.drivingDuration || 0)
DrivingKey(r) == IF Truthy(r.drivingDuration) THEN r.drivingDuration[1] ELSE 0

RECURSIVE InsertByDriving(_, _)
\* x goes behind every element the comparator does not order after it
InsertByDriving(sorted, x) ==
  IF sorted = <<>> THEN <<x>>
  ELSE IF DrivingKey(Head(sorted)) >= DrivingKey(x)
       THEN <<Head(sorted)>> \o InsertByDriving(Tail(sorted), x)
       ELSE <<x>> \o sorted

RECURSIVE SortByDriving(_)
\* lines 865-866: commuteData.sort((a, b) => (b.drivingDuration || 0) -
\* (a.drivingDuration || 0)), a stable sort of the array in place
SortByDriving(results) ==
  IF results = <<>> THEN <<>>
  ELSE InsertByDriving(SortByDriving(SubSeq(results, 1, Len(results) - 1)),
                       results[Len(results)])

Without(f, x) == [y \in DOMAIN f \ {x} |-> f[y]]

\* a request supersedes every recomputation still in flight (history)
Superseded(rs) == [r \in DOMAIN rs |-> [rs[r] EXCEPT !.latest = FALSE]]

NoImport == 0
Caller(kind, import) == [kind |-> kind, import |-> import]

\* lines 91-107: one promise per employee, its driving call already issued
NewRun(office, employeeList, withCoords, caller) ==
  [office |-> office,
   employeeList |-> employeeList,
   employeesWithCoords |-> withCoords,
   pc |-> [k \in 1..Len(withCoords) |-> "driving"],
   result |-> [k \in 1..Len(withCoords) |-> InitialResult(withCoords[k])],
   caller |-> caller,
   latest |-> TRUE]

Request(office, employeeList) == Some([office |-> office, employeeList |-> employeeList])

\* CommitResults as it would be if results without any leg value were taken
\* for a failure and the previous results kept
CommitResultsUnlessOutage(results, office, employeeList) ==
  IF results # <<>> /\ \A i \in DOMAIN results :
                        results[i].drivingDuration = None /\ results[i].transitDuration = None
  THEN UNCHANGED <<commuteData, averageDrivingCommute, averageTransitCommute,
                   committedFor>>
  ELSE /\ commuteData' = SortByDriving(results)
       /\ averageDrivingCommute' = Average(results, "drivingDuration")
       /\ averageTransitCommute' = Average(results, "transitDuration")
       /\ committedFor' = Request(office, employeeList)

\* CommitResults as it would be if the averages were committed apart from
\* the results: this commit publishes the results and leaves the averages
CommitResultsWithoutAverages(results, office, employeeList) ==
  /\ commuteData' = SortByDriving(results)
  /\ UNCHANGED <<averageDrivingCommute, averageTransitCommute>>
  /\ committedFor' = Request(office, employeeList)

\* CommitResults as it would be if the new results were added to the
\* committed ones instead of replacing them
CommitResultsAppended(results, office, employeeList) ==
  /\ commuteData' = SortByDriving(commuteData \o results)
  /\ averageDrivingCommute' = Average(commuteData \o results, "drivingDuration")
  /\ averageTransitCommute' = Average(commuteData \o results, "transitDuration")
  /\ committedFor' = Request(office, employeeList)

\* lines 259-280: setCommuteData, both averages, setIsLoading(false); the
\* render that follows shows the list (isLoading is false) and sorts the
\* array held in commuteData in place
CommitResults(results, office, employeeList) ==
  /\ commuteData' = SortByDriving(results)
  /\ averageDrivingCommute' = Average(results, "drivingDuration")
  /\ averageTransitCommute' = Average(results, "transitDuration")
  /\ committedFor' = Request(office, employeeList)

\* the awaiting caller goes on: geocodeEmployees ends (line 571)
Resumed(caller, imps) ==
  IF caller.kind = "geocode" THEN Without(imps, caller.import) ELSE imps

OptimalCalculated == "Optimal office location calculated based on employee distribution."

\* the caller is suspended at its await of calculateCommuteTimes
CallerAwaits(caller) ==
  /\ isOptimizing' = (isOptimizing \/ caller.kind = "optimize")
  /\ UNCHANGED <<isSearchingOffice, alert>>

\* the call has returned and the caller goes on: lines 617 and 681-688
CallerResumes(caller) ==
  /\ isSearchingOffice' = IF caller.kind = "search" THEN FALSE ELSE isSearchingOffice
  /\ isOptimizing' = IF caller.kind = "optimize" THEN FALSE ELSE isOptimizing
  /\ alert' = IF caller.kind = "optimize" THEN Some(OptimalCalculated) ELSE alert

\* calculateCommuteTimes without the early return of lines 66-69: an empty
\* employee list is computed like any other
calculateCommuteTimesOfAnyList(office, employeeList, caller, imps) ==
  LET withCoords == EmployeesWithCoords(employeeList)
      free == RunIds \ DOMAIN runs
  IN IF withCoords = <<>>
     THEN /\ CommitResults(<<>>, office, employeeList)
          /\ isLoading' = FALSE
          /\ imports' = Resumed(caller, imps)
          /\ CallerResumes(caller)
          /\ runs' = Superseded(runs)
          /\ lastRequest' = Request(office, employeeList)
     ELSE /\ free # {}
          /\ LET id == CHOOSE r \in free : \A q \in free : r <= q
             IN runs' = Superseded(runs) @@ (id :> NewRun(office, employeeList, withCoords, caller))
          /\ isLoading' = TRUE
          /\ imports' = imps
          /\ CallerAwaits(caller)
          /\ lastRequest' = Request(office, employeeList)
          /\ UNCHANGED <<commuteData, averageDrivingCommute, averageTransitCommute,
                         committedFor>>

\* lines 58-281 up to the first await: a call of calculateCommuteTimes by
\* `caller`, with `imps` the imports as the caller leaves them.  Without a
\* valid employee no promise is awaited and the call commits at once.
calculateCommuteTimes(office, employeeList, caller, imps) ==
  LET withCoords == EmployeesWithCoords(employeeList)
      free == RunIds \ DOMAIN runs
  IN IF employeeList = <<>>
     THEN /\ isLoading' = IF caller.kind = "geocode" THEN FALSE ELSE isLoading
          /\ imports' = Resumed(caller, imps)
          /\ CallerResumes(caller)
          /\ UNCHANGED <<commuteData, averageDrivingCommute, averageTransitCommute,
                         committedFor, runs, lastRequest>>
     ELSE IF withCoords = <<>>
     THEN /\ CommitResults(<<>>, office, employeeList)
          /\ isLoading' = FALSE
          /\ imports' = Resumed(caller, imps)
          /\ CallerResumes(caller)
          /\ runs' = Superseded(runs)
          /\ lastRequest' = Request(office, employeeList)
     ELSE /\ free # {}
          /\ LET id == CHOOSE r \in free : \A q \in free : r <= q
             IN runs' = Superseded(runs) @@ (id :> NewRun(office, employeeList, withCoords, caller))
          /\ isLoading' = TRUE
          /\ imports' = imps
          /\ CallerAwaits(caller)
          /\ lastRequest' = Request(office, employeeList)
          /\ UNCHANGED <<commuteData, averageDrivingCommute, averageTransitCommute,
                         committedFor>>

\* Commit as it would be if the results were published as soon as one
\* promise had resolved
CommitEarly(r) ==
  /\ r \in DOMAIN runs
  /\ \E k \in DOMAIN runs[r].pc : runs[r].pc[k] = "done"
  /\ CommitResults(runs[r].result, runs[r].office, runs[r].employeeList)
  /\ isLoading' = FALSE
  /\ runs' = Without(runs, r)
  /\ imports' = Resumed(runs[r].caller, imports)
  /\ CallerResumes(runs[r].caller)
  /\ UNCHANGED <<employees, officeLocation, search, events, uploads, failures,
                 lastRequest>>

\* lines 253-281: every promise has resolved; the results are committed and
\* the caller resumes
Commit(r) ==
  /\ r \in DOMAIN runs
  /\ \A k \in DOMAIN runs[r].pc : runs[r].pc[k] = "done"
  /\ CommitResults(runs[r].result, runs[r].office, runs[r].employeeList)
  /\ isLoading' = FALSE
  /\ runs' = Without(runs, r)
  /\ imports' = Resumed(runs[r].caller, imports)
  /\ CallerResumes(runs[r].caller)
  /\ UNCHANGED <<employees, officeLocation, search, events, uploads, failures,
                 lastRequest>>

(* the employees' promises of one recomputation *)

RunFrame == UNCHANGED <<employees, officeLocation, commuteData, averageDrivingCommute,
                        averageTransitCommute, isLoading, isSearchingOffice,
                        isOptimizing, alert, search, imports, events, uploads,
                        lastRequest, committedFor>>

\* the service's answer `resp` is counted against the failures it may have
Answer(resp, ok) ==
  IF resp.kind = ok THEN UNCHANGED failures
  ELSE failures < MaxFailures /\ failures' = failures + 1

At(r, k, pc) == r \in DOMAIN runs /\ k \in DOMAIN runs[r].pc /\ runs[r].pc[k] = pc

DrivingAnswered(r, k) ==
  /\ At(r, k, "driving")
  /\ \E resp \in DrivingResponses(Home(runs[r].employeesWithCoords[k]), runs[r].office) :
       /\ Answer(resp, "route")
       /\ runs' = [runs EXCEPT ![r] = AfterDriving(@, k, resp)]
  /\ RunFrame

Delay1Over(r, k) ==
  /\ At(r, k, "delay1")
  /\ runs' = [runs EXCEPT ![r] = AfterDelay1(@, k)]
  /\ UNCHANGED failures
  /\ RunFrame

\* origin lat,lng and destination office[1],office[0]: the same two points
TransitAnswered(r, k) ==
  /\ At(r, k, "transit")
  /\ \E resp \in TransitResponses(Home(runs[r].employeesWithCoords[k]), runs[r].office) :
       /\ Answer(resp, "route")
       /\ runs' = [runs EXCEPT ![r] = AfterTransit(@, k, resp)]
  /\ RunFrame

ClientDrivingAnswered(r, k) ==
  /\ At(r, k, "clientDriving")
  /\ \E resp \in DrivingResponses(Home(runs[r].employeesWithCoords[k]),
                                  ClientOffice(runs[r].employeesWithCoords[k])) :
       /\ Answer(resp, "route")
       /\ runs' = [runs EXCEPT ![r] = AfterClientDriving(@, k, resp)]
  /\ RunFrame

Delay2Over(r, k) ==
  /\ At(r, k, "delay2")
  /\ runs' = [runs EXCEPT ![r] = AfterDelay2(@, k)]
  /\ UNCHANGED failures
  /\ RunFrame

ClientTransitAnswered(r, k) ==
  /\ At(r, k, "clientTransit")
  /\ \E resp \in TransitResponses(Home(runs[r].employeesWithCoords[k]),
                                  ClientOffice(runs[r].employeesWithCoords[k])) :
       /\ Answer(resp, "route")
       /\ runs' = [runs EXCEPT ![r] = AfterClientTransit(@, k, resp)]
  /\ RunFrame

Delay3Over(r, k) ==
  /\ At(r, k, "delay3")
  /\ runs' = [runs EXCEPT ![r] = AfterDelay3(@, k)]
  /\ UNCHANGED failures
  /\ RunFrame

(* ------------------------------ dragend ------------------------------- *)

\* DragEnd as it would be if a move of the office reset the roster to its
\* unresolved state before recomputing
DragEndResetsRoster(target) ==
  /\ events < MaxEvents
  /\ events' = events + 1
  /\ officeLocation' = target
  /\ employees' = [i \in DOMAIN employees |->
                     [employees[i] EXCEPT !.lat = None, !.lng = None,
                                          !.clientOfficeLat = None,
                                          !.clientOfficeLng = None]]
  /\ IF Len(employees) > 0
     THEN calculateCommuteTimes(target, employees', Caller("drag", NoImport), imports)
     ELSE UNCHANGED <<commuteData, averageDrivingCommute, averageTransitCommute,
                      isLoading, isSearchingOffice, isOptimizing, alert,
                      imports, runs, lastRequest, committedFor>>
  /\ UNCHANGED <<failures, search, uploads>>

\* lines 345-365: the marker is dropped at `target`
DragEnd(target) ==
  /\ events < MaxEvents
  /\ events' = events + 1
  /\ officeLocation' = target
  /\ IF Len(employees) > 0
     THEN calculateCommuteTimes(target, employees, Caller("drag", NoImport), imports)
     ELSE UNCHANGED <<commuteData, averageDrivingCommute, averageTransitCommute,
                      isLoading, isSearchingOffice, isOptimizing, alert,
                      imports, runs, lastRequest, committedFor>>
  /\ UNCHANGED <<employees, failures, search, uploads>>

(* ------------------------ searchOfficeAddress ------------------------ *)

AddressNotFound == "Address not found. Please try a different address."
ErrorSearching == "Error searching for address. Please try again."

\* what the geocoding service can do with one query: answer (with the first
\* feature's center, if any) or fail (a rejected fetch, an unparsable body)
GeocodeResponses(address) ==
  { [kind |-> "answer", center |-> GeocodeCenter(address)],
    [kind |-> "throw", center |-> None] }

\* lines 574-585: the search is started (button or Enter key; both are
\* disabled while loading or searching) and the query is issued
\* lines 743 and 748: the search field and its button are disabled
SearchDisabled == isLoading \/ isSearchingOffice

searchOfficeAddress(officeAddress) ==
  /\ ~SearchDisabled
  /\ events < MaxEvents
  /\ events' = events + 1
  /\ isSearchingOffice' = TRUE
  /\ search' = Some(officeAddress)
  /\ UNCHANGED <<employees, officeLocation, commuteData, averageDrivingCommute,
                 averageTransitCommute, isLoading, isOptimizing, alert, imports,
                 runs, uploads, failures, lastRequest, committedFor>>

\* SearchAnswered as it would be if setIsSearchingOffice(false) stood at the
\* end of the try block: a thrown query leaves the flag set
SearchAnsweredInsideTry ==
  /\ search # None
  /\ search' = None
  /\ \E answer \in GeocodeResponses(search[1]) :
       /\ Answer(answer, "answer")
       /\ IF answer.kind = "throw" \/ answer.center = None
          THEN /\ alert' = Some(IF answer.kind = "throw" THEN ErrorSearching
                                ELSE AddressNotFound)
               /\ isSearchingOffice' = (answer.kind = "throw")
               /\ UNCHANGED <<officeLocation, commuteData, averageDrivingCommute,
                              averageTransitCommute, isLoading, isOptimizing,
                              imports, runs, lastRequest, committedFor>>
          ELSE /\ officeLocation' = answer.center[1]
               /\ IF Len(employees) > 0
                  THEN calculateCommuteTimes(answer.center[1], employees,
                                             Caller("search", NoImport), imports)
                  ELSE /\ isSearchingOffice' = FALSE
                       /\ UNCHANGED <<commuteData, averageDrivingCommute,
                                      averageTransitCommute, isLoading, isOptimizing,
                                      alert, imports, runs, lastRequest, committedFor>>
  /\ UNCHANGED <<employees, events, uploads>>

\* lines 587-617: the answer to the office address query
SearchAnswered ==
  /\ search # None
  /\ search' = None
  /\ \E answer \in GeocodeResponses(search[1]) :
       /\ Answer(answer, "answer")
       /\ IF answer.kind = "throw" \/ answer.center = None
          THEN /\ alert' = Some(IF answer.kind = "throw" THEN ErrorSearching
                                ELSE AddressNotFound)
               /\ isSearchingOffice' = FALSE
               /\ UNCHANGED <<officeLocation, commuteData, averageDrivingCommute,
                              averageTransitCommute, isLoading, isOptimizing,
                              imports, runs, lastRequest, committedFor>>
          ELSE /\ officeLocation' = answer.center[1]
               /\ IF Len(employees) > 0
                  THEN calculateCommuteTimes(answer.center[1], employees,
                                             Caller("search", NoImport), imports)
                  ELSE /\ isSearchingOffice' = FALSE
                       /\ UNCHANGED <<commuteData, averageDrivingCommute,
                                      averageTransitCommute, isLoading, isOptimizing,
                                      alert, imports, runs, lastRequest, committedFor>>
  /\ UNCHANGED <<employees, events, uploads>>

(* ---------------------- calculateOptimalLocation ---------------------- *)

PleaseUpload == "Please upload employee data first."
NoCoordinates == "No employee coordinates available. Please upload valid addresses."
\* the message of the catch of lines 683-686
ErrorCalculating == "Error calculating optimal location. Please try again."

\* sum / n of JavaScript numbers, to the nearest point of the coordinate grid
Quotient(sum, n) == IF sum >= 0 THEN Round(sum, n) ELSE -Round(-sum, n)

\* HasCoords with the test left out: no employee is filtered away
HasCoordsUntested(e) == TRUE

\* lines 637-639: the employees whose lat and lng are not undefined
HasCoords(e) == e.lat # None /\ e.lng # None

RECURSIVE SumCoordinates(_)
\* lines 648-656: <<sumLng, sumLat>> over the employees that pass the test
\* if (employee.lat && employee.lng)
SumCoordinates(list) ==
  IF list = <<>> THEN <<0, 0>>
  ELSE LET e == Head(list)
           rest == SumCoordinates(Tail(list))
       IN IF Truthy(e.lat) /\ Truthy(e.lng)
          THEN <<rest[1] + e.lng[1], rest[2] + e.lat[1]>>
          ELSE rest

\* lines 658-661: [avgLng, avgLat]
OptimalLocation(employeesWithCoords) ==
  LET sum == SumCoordinates(employeesWithCoords)
  IN <<Quotient(sum[1], Len(employeesWithCoords)),
       Quotient(sum[2], Len(employeesWithCoords))>>

\* lines 626-689: the optimize button is clicked (it is disabled while
\* loading, searching or optimizing and for an empty roster)
\* line 770: the optimizer's button is disabled
OptimizeDisabled == isLoading \/ isSearchingOffice \/ isOptimizing \/ Len(employees) = 0

calculateOptimalLocation ==
  /\ ~OptimizeDisabled
  /\ events < MaxEvents
  /\ events' = events + 1
  /\ LET employeesWithCoords == SelectSeq(employees, HasCoords)
     IN IF Len(employees) = 0 \/ employeesWithCoords = <<>>
        THEN /\ alert' = Some(IF Len(employees) = 0 THEN PleaseUpload ELSE NoCoordinates)
             /\ isOptimizing' = FALSE
             /\ UNCHANGED <<officeLocation, commuteData, averageDrivingCommute,
                            averageTransitCommute, isLoading, isSearchingOffice,
                            imports, runs, lastRequest, committedFor>>
        ELSE /\ officeLocation' = OptimalLocation(employeesWithCoords)
             /\ calculateCommuteTimes(OptimalLocation(employeesWithCoords), employees,
                                      Caller("optimize", NoImport), imports)
  /\ UNCHANGED <<employees, search, uploads, failures>>

(* --------------------------- roster import ---------------------------- *)

\* geocodeEmployees as started by handleFileUpload: the loop is at its
\* first employee, whose home address query is in flight.  officeLocation
\* is the value the handler's closure holds; queried lists the address
\* texts sent to the geocoding service so far (history).
NewImport(employeeData, office) ==
  [employeeData |-> employeeData,
   i |-> 1,
   pc |-> "home",
   geocodedEmployees |-> <<>>,
   geocodedEmployee |-> None,
   officeLocation |-> office,
   queried |-> IF employeeData = <<>> THEN <<>> ELSE <<employeeData[1].address>>]

\* line 461: if (employee.clientOfficeAddress), a non-empty text
HasClientOfficeAddress(e) == e.clientOfficeAddress # None /\ e.clientOfficeAddress[1] # ""

\* line 447: isInSydney, on the grid: 150.5 <= lng <= 152.0 and
\* -34.5 <= lat <= -33.2; its only use is the warning of line 450
IsInSydney(center) ==
  /\ center[1] >= 151 /\ center[1] <= 152
  /\ center[2] >= -34 /\ center[2] <= -34

\* AfterHomeGeocode as it would be if a result outside the region were
\* discarded like an address without a match
AfterHomeGeocodeInSydney(imp, answer) ==
  LET employee == imp.employeeData[imp.i]
  IN IF answer.kind = "throw" THEN [imp EXCEPT !.pc = "next"]
     ELSE IF answer.center = None \/ ~IsInSydney(answer.center[1])
     THEN [imp EXCEPT !.pc = "delay"]
     ELSE LET geocodedEmployee ==
                [employee EXCEPT !.lat = Some(answer.center[1][2]),
                                 !.lng = Some(answer.center[1][1])]
          IN IF HasClientOfficeAddress(employee)
             THEN [imp EXCEPT !.pc = "client",
                              !.geocodedEmployee = Some(geocodedEmployee),
                              !.queried = Append(@, employee.clientOfficeAddress[1])]
             ELSE [imp EXCEPT !.pc = "delay",
                              !.geocodedEmployees = Append(@, geocodedEmployee)]

\* AfterHomeGeocode as it would be if try/catch stood around the loop and
\* not inside it: a service error ends the loop
AfterHomeGeocodeAborting(imp, answer) ==
  LET employee == imp.employeeData[imp.i]
  IN IF answer.kind = "throw"
     THEN [imp EXCEPT !.pc = "next", !.i = Len(imp.employeeData)]
     ELSE IF answer.center = None THEN [imp EXCEPT !.pc = "delay"]
     ELSE LET geocodedEmployee ==
                [employee EXCEPT !.lat = Some(answer.center[1][2]),
                                 !.lng = Some(answer.center[1][1])]
          IN IF HasClientOfficeAddress(employee)
             THEN [imp EXCEPT !.pc = "client",
                              !.geocodedEmployee = Some(geocodedEmployee),
                              !.queried = Append(@, employee.clientOfficeAddress[1])]
             ELSE [imp EXCEPT !.pc = "delay",
                              !.geocodedEmployees = Append(@, geocodedEmployee)]

\* lines 437-461 and 559-564: the answer to the home address query.
\* pc "next" stands for the end of the loop body.
AfterHomeGeocode(imp, answer) ==
  LET employee == imp.employeeData[imp.i]
  IN IF answer.kind = "throw" THEN [imp EXCEPT !.pc = "next"]
     ELSE IF answer.center = None THEN [imp EXCEPT !.pc = "delay"]
     ELSE LET geocodedEmployee ==
                [employee EXCEPT !.lat = Some(answer.center[1][2]),
                                 !.lng = Some(answer.center[1][1])]
          IN IF HasClientOfficeAddress(employee)
             THEN [imp EXCEPT !.pc = "client",
                              !.geocodedEmployee = Some(geocodedEmployee),
                              !.queried = Append(@, employee.clientOfficeAddress[1])]
             ELSE [imp EXCEPT !.pc = "delay",
                              !.geocodedEmployees = Append(@, geocodedEmployee)]

\* lines 469-489: the answer to the client office address query
AfterClientGeocode(imp, answer) ==
  IF answer.kind = "throw"
  THEN [imp EXCEPT !.pc = "delay",
                   !.geocodedEmployees = Append(@, imp.geocodedEmployee[1]),
                   !.geocodedEmployee = None]
  ELSE [imp EXCEPT
          !.pc = "clientDelay",
          !.geocodedEmployee =
             IF answer.center # None
             THEN Some([@[1] EXCEPT !.clientOfficeLat = Some(answer.center[1][2]),
                                    !.clientOfficeLng = Some(answer.center[1][1])])
             ELSE @]

\* lines 483-489: the delay after the client office query, then the push
AfterClientDelay(imp) ==
  [imp EXCEPT !.pc = "delay",
              !.geocodedEmployees = Append(@, imp.geocodedEmployee[1]),
              !.geocodedEmployee = None]

\* line 561: the delay that ends the loop body
AfterDelay(imp) == [imp EXCEPT !.pc = "next"]

\* lines 567-571: setEmployees(geocodedEmployees), then the recomputation
\* for the office location the closure holds, awaited
FinishGeocoding(id, imp) ==
  /\ employees' = imp.geocodedEmployees
  /\ calculateCommuteTimes(imp.officeLocation, imp.geocodedEmployees,
                           Caller("geocode", id),
                           (id :> [imp EXCEPT !.pc = "calc"]) @@ imports)
  /\ UNCHANGED <<officeLocation, search>>

\* the import goes on from `imp`: to the next await, the next employee
\* (whose home address query is issued) or the end of the loop
Proceed(id, imp) ==
  IF imp.pc # "next"
  THEN /\ imports' = [imports EXCEPT ![id] = imp]
       /\ UNCHANGED <<employees, officeLocation, commuteData, averageDrivingCommute,
                      averageTransitCommute, isLoading, isSearchingOffice,
                      isOptimizing, alert, search, runs, lastRequest,
                      committedFor>>
  ELSE IF imp.i < Len(imp.employeeData)
  THEN /\ imports' = [imports EXCEPT ![id] =
                         [imp EXCEPT !.i = @ + 1, !.pc = "home",
                                     !.queried = Append(@, imp.employeeData[imp.i + 1].address)]]
       /\ UNCHANGED <<employees, officeLocation, commuteData, averageDrivingCommute,
                      averageTransitCommute, isLoading, isSearchingOffice,
                      isOptimizing, alert, search, runs, lastRequest,
                      committedFor>>
  ELSE FinishGeocoding(id, imp)

ImportAt(id, pc) == id \in DOMAIN imports /\ imports[id].pc = pc

\* lines 390-421: a CSV file is chosen (the input is disabled while
\* loading), at most `limit` files in all
Upload(file, limit) ==
  /\ ~isLoading
  /\ events < MaxEvents /\ uploads < limit
  /\ events' = events + 1
  /\ uploads' = uploads + 1
  /\ UNCHANGED failures
  /\ LET employeeData == ParseCsv(file)
         free == ImportIds \ DOMAIN imports
         id == CHOOSE x \in free : \A y \in free : x <= y
     IN /\ free # {}
        /\ IF employeeData = <<>>
           THEN FinishGeocoding(id, NewImport(employeeData, officeLocation))
           ELSE /\ employees' = employeeData
                /\ isLoading' = TRUE
                /\ imports' = (id :> NewImport(employeeData, officeLocation)) @@ imports
                /\ UNCHANGED <<officeLocation, commuteData, averageDrivingCommute,
                               averageTransitCommute, isSearchingOffice,
                               isOptimizing, alert, search, runs, lastRequest,
                               committedFor>>

handleFileUpload(file) == uploads < MaxUploads /\ Upload(file, MaxUploads)

\* a further file is chosen, after the MaxUploads files of handleFileUpload
handleFileUploadAgain(file) == uploads >= MaxUploads /\ Upload(file, MaxReuploads)

HomeGeocoded(id) ==
  /\ ImportAt(id, "home")
  /\ \E answer \in GeocodeResponses(imports[id].employeeData[imports[id].i].address) :
       /\ Answer(answer, "answer")
       /\ Proceed(id, AfterHomeGeocode(imports[id], answer))
  /\ UNCHANGED <<events, uploads>>

ClientGeocoded(id) ==
  /\ ImportAt(id, "client")
  /\ \E answer \in GeocodeResponses(imports[id].geocodedEmployee[1].clientOfficeAddress[1]) :
       /\ Answer(answer, "answer")
       /\ Proceed(id, AfterClientGeocode(imports[id], answer))
  /\ UNCHANGED <<events, uploads>>

ClientDelayOver(id) ==
  /\ ImportAt(id, "clientDelay")
  /\ Proceed(id, AfterClientDelay(imports[id]))
  /\ UNCHANGED <<events, uploads, failures>>

DelayOver(id) ==
  /\ ImportAt(id, "delay")
  /\ Proceed(id, AfterDelay(imports[id]))
  /\ UNCHANGED <<events, uploads, failures>>

(* --------------------------- specification ---------------------------- *)

Init ==
  /\ employees = <<>>
  /\ officeLocation = DefaultOffice
  /\ commuteData = <<>>
  /\ averageDrivingCommute = 0
  /\ averageTransitCommute = 0
  /\ isLoading = FALSE
  /\ isSearchingOffice = FALSE
  /\ isOptimizing = FALSE
  /\ alert = None
  /\ search = None
  /\ imports = <<>>
  /\ runs = <<>>
  /\ events = 0
  /\ uploads = 0
  /\ failures = 0
  /\ lastRequest = None
  /\ committedFor = None

Next ==
  \/ \E file \in CsvFiles : handleFileUpload(file)
  \/ \E id \in ImportIds : HomeGeocoded(id)
  \/ \E id \in ImportIds : ClientGeocoded(id)
  \/ \E id \in ImportIds : ClientDelayOver(id)
  \/ \E id \in ImportIds : DelayOver(id)
  \/ \E target \in DragTargets : DragEnd(target)
  \/ \E officeAddress \in OfficeAddresses : searchOfficeAddress(officeAddress)
  \/ SearchAnswered
  \/ calculateOptimalLocation
  \/ \E r \in DOMAIN runs : \E k \in DOMAIN runs[r].pc : DrivingAnswered(r, k)
  \/ \E r \in DOMAIN runs : \E k \in DOMAIN runs[r].pc : Delay1Over(r, k)
  \/ \E r \in DOMAIN runs : \E k \in DOMAIN runs[r].pc : TransitAnswered(r, k)
  \/ \E r \in DOMAIN runs : \E k \in DOMAIN runs[r].pc : ClientDrivingAnswered(r, k)
  \/ \E r \in DOMAIN runs : \E k \in DOMAIN runs[r].pc : Delay2Over(r, k)
  \/ \E r \in DOMAIN runs : \E k \in DOMAIN runs[r].pc : ClientTransitAnswered(r, k)
  \/ \E r \in DOMAIN runs : \E k \in DOMAIN runs[r].pc : Delay3Over(r, k)
  \/ \E r \in DOMAIN runs : Commit(r)

Spec == Init /\ [][Next]_vars

\* a step of a recomputation in flight: an answer, a delay, the commit
RunStep ==
  \/ \E r \in DOMAIN runs : \E k \in DOMAIN runs[r].pc :
        \/ DrivingAnswered(r, k) \/ Delay1Over(r, k) \/ TransitAnswered(r, k)
        \/ ClientDrivingAnswered(r, k) \/ Delay2Over(r, k)
        \/ ClientTransitAnswered(r, k) \/ Delay3Over(r, k)
  \/ \E r \in DOMAIN runs : Commit(r)

\* every service call is answered or fails, every timer fires and every
\* continuation runs: a recomputation that can take a step takes one
LiveSpec == Init /\ [][Next]_vars /\ WF_vars(RunStep)

\* the same program with further uploads: MaxReuploads files in all
NextWithReuploads ==
  \/ Next
  \/ \E file \in CsvFiles : handleFileUploadAgain(file)

SpecWithReuploads == Init /\ [][NextWithReuploads]_vars

(* ------------------------------ claims -------------------------------- *)

IsCall(pc) == pc \in {"driving", "transit", "clientDriving", "clientTransit"}

\* the employees' promises of the recomputations in flight
Promises == UNION { { <<r, k>> : k \in DOMAIN runs[r].pc } : r \in DOMAIN runs }

RoutingCallsInFlight == Cardinality({ p \in Promises : IsCall(runs[p[1]].pc[p[2]]) })

\* a recomputation leaves `runs` by committing
Commits(r) == r \in DOMAIN runs /\ r \notin DOMAIN runs'

\* C1: a recomputation superseded by a later request before it finished
\* never commits its results: whenever one commits, it is the latest request.
C1_OnlyLatestCommits ==
  [][\A r \in DOMAIN runs : Commits(r) => runs[r].latest]_vars

\* C2: once no recomputation is in flight, the committed results are the
\* ones computed for the office coordinate of the last request.
C2_LastRequestWins ==
  (DOMAIN runs = {} /\ lastRequest # None)
    => (committedFor # None /\ committedFor[1].office = lastRequest[1].office)

\* the one-call-at-a-time scheme the source names ("Rate limiting between
\* employees"): the smallest budget a worker pool can have
WorkerBudget == 1

\* C3: the routing calls in flight never exceed a fixed worker budget,
\* however many employees the roster has and however many requests overlap.
C3_CallsWithinBudget == RoutingCallsInFlight <= WorkerBudget

\* C4: within one recomputation an employee's next routing call is never
\* issued in the step in which the previous one returns: a delay lies between.
C4_DelayBetweenCalls ==
  [][\A r \in DOMAIN runs \cap DOMAIN runs' : \A k \in DOMAIN runs[r].pc :
       (IsCall(runs[r].pc[k]) /\ IsCall(runs'[r].pc[k]))
         => runs'[r].pc[k] = runs[r].pc[k]]_vars

\* C5: whatever the answer to a driving call, the employee goes on to the
\* transit call for the same destination (main office, client office).
C5_OtherLegsAttempted ==
  [][\A r \in DOMAIN runs \cap DOMAIN runs' : \A k \in DOMAIN runs[r].pc :
       /\ (runs[r].pc[k] = "driving" /\ runs'[r].pc[k] # "driving")
            => runs'[r].pc[k] = "delay1"
       /\ (runs[r].pc[k] = "clientDriving" /\ runs'[r].pc[k] # "clientDriving")
            => runs'[r].pc[k] = "delay2"]_vars

\* the same results, each as often, in any order
SameResults(a, b) ==
  /\ Len(a) = Len(b)
  /\ \A i \in DOMAIN a :
       Cardinality({ j \in DOMAIN a : a[j] = a[i] })
         = Cardinality({ j \in DOMAIN b : b[j] = a[i] })

\* C6: a step of one employee's promise (an answer, a failure, a delay)
\* leaves the position and the result of every other employee of the
\* recomputation as they are, and the commit publishes the result of every
\* employee of the snapshot.
C6_EmployeesIndependent ==
  [][\A r \in DOMAIN runs :
       IF Commits(r)
       THEN SameResults(commuteData', runs[r].result)
            /\ Len(runs[r].result) = Len(runs[r].employeesWithCoords)
       ELSE \A k, j \in DOMAIN runs[r].pc :
              (k # j /\ runs'[r].pc[k] # runs[r].pc[k])
                => /\ runs'[r].pc[j] = runs[r].pc[j]
                   /\ runs'[r].result[j] = runs[r].result[j]]_vars

\* two employees were computed together, every leg of the first failed and
\* the second has its main office legs
C6_Witness ==
  /\ Len(commuteData) = 2
  /\ \E i, j \in DOMAIN commuteData :
       /\ commuteData[i].drivingDuration = None /\ commuteData[i].transitDuration = None
       /\ commuteData[j].drivingDuration # None /\ commuteData[j].transitDuration # None

\* a resolved home coordinate inside the coordinate ranges of the data model
InRange(e) ==
  /\ e.lat # None /\ e.lng # None
  /\ e.lat[1] \in -90..90 /\ e.lng[1] \in -180..180

ResultsOf(e) == { i \in DOMAIN commuteData : commuteData[i].id = e.id }

\* C7: the committed results hold exactly one result for each employee of
\* the request's roster with a resolved, in-range home coordinate, and none
\* for any other employee.
C7_OneResultPerResolved ==
  committedFor # None =>
    LET list == committedFor[1].employeeList
    IN /\ \A i \in DOMAIN list :
            Cardinality(ResultsOf(list[i])) = IF InRange(list[i]) THEN 1 ELSE 0
       /\ \A j \in DOMAIN commuteData : \E i \in DOMAIN list :
            /\ list[i].id = commuteData[j].id
            /\ list[i].lat = commuteData[j].lat /\ list[i].lng = commuteData[j].lng

\* results are committed for a roster that holds an employee with an
\* out-of-range coordinate beside one with a valid coordinate
C7_Witness ==
  /\ committedFor # None
  /\ \E i, j \in DOMAIN committedFor[1].employeeList :
       /\ ~InRange(committedFor[1].employeeList[i])
       /\ committedFor[1].employeeList[i].lat # None
       /\ InRange(committedFor[1].employeeList[j])
  /\ Len(commuteData) = 1

\* C8: when the geocoding pass of an import is over, every employee of the
\* uploaded roster is still in the roster.
C8_RosterKeepsUnresolved ==
  \A id \in DOMAIN imports :
    imports[id].pc = "calc" =>
      \A k \in DOMAIN imports[id].employeeData :
        \E j \in DOMAIN employees : employees[j].id = imports[id].employeeData[k].id

NoClientCoordinate(e) == e.clientOfficeLat = None /\ e.clientOfficeLng = None

NoClientPart(result) ==
  /\ NoClientCoordinate(result)
  /\ result.clientDrivingDuration = None /\ result.clientDrivingDistance = None
  /\ result.clientTransitDuration = None /\ result.clientTransitDistance = None
  /\ result.clientTransitSteps = None

\* imported from a row whose third field is empty or missing
NoClientAddress(e) == e.clientOfficeAddress = None

\* the data rows of a file and the employees made of them, in order
DataRows(file) == SelectSeq(SubSeq(file, 2, Len(file)), LAMBDA l : ~LineBlank(l))

\* C9: an employee imported from a row with an empty third field never has
\* a client office coordinate, no client office geocoding or routing call is
\* issued for it, and its commute result has no client office part.
C9_NoClientOfficeWithoutAddress ==
  /\ \A file \in CsvFiles : \A i \in DOMAIN DataRows(file) :
       (Len(DataRows(file)[i]) < 3 \/ DataRows(file)[i][3] \in {"", " "})
         => NoClientAddress(ParseCsv(file)[i])
  /\ \A i \in DOMAIN employees :
       NoClientAddress(employees[i]) => NoClientCoordinate(employees[i])
  /\ \A i \in DOMAIN commuteData :
       NoClientAddress(commuteData[i]) => NoClientPart(commuteData[i])
  /\ \A id \in DOMAIN imports :
       /\ \A i \in DOMAIN imports[id].geocodedEmployees :
            NoClientAddress(imports[id].geocodedEmployees[i])
              => NoClientCoordinate(imports[id].geocodedEmployees[i])
       /\ imports[id].pc \in {"client", "clientDelay"}
            => ~NoClientAddress(imports[id].employeeData[imports[id].i])
  /\ \A p \in Promises :
       NoClientAddress(runs[p[1]].employeesWithCoords[p[2]])
         => /\ runs[p[1]].pc[p[2]] \notin {"clientDriving", "delay2", "clientTransit"}
            /\ NoClientPart(runs[p[1]].result[p[2]])

\* the results of an employee without a client office address are committed
\* with both main office legs resolved
C9_Witness ==
  \E i \in DOMAIN commuteData :
    /\ NoClientAddress(commuteData[i])
    /\ commuteData[i].drivingDuration # None /\ commuteData[i].transitDuration # None

\* C10: when the main office transit call has returned, the client office
\* calls are scheduled if and only if the employee's client office
\* coordinate is resolved, whatever its value.
C10_ClientCallsIffResolved ==
  [][\A r \in DOMAIN runs \cap DOMAIN runs' : \A k \in DOMAIN runs[r].pc :
       (runs[r].pc[k] = "transit" /\ runs'[r].pc[k] # "transit")
         => (runs'[r].pc[k] = "clientDriving"
               <=> ~NoClientCoordinate(runs[r].employeesWithCoords[k]))]_vars

\* the legs, named as the position of the promise that awaits their call,
\* and the duration and distance fields of each
Legs == {"driving", "transit", "clientDriving", "clientTransit"}
DurationOf(leg) ==
  CASE leg = "driving" -> "drivingDuration" [] leg = "transit" -> "transitDuration"
    [] leg = "clientDriving" -> "clientDrivingDuration"
    [] leg = "clientTransit" -> "clientTransitDuration"
DistanceOf(leg) ==
  CASE leg = "driving" -> "drivingDistance" [] leg = "transit" -> "transitDistance"
    [] leg = "clientDriving" -> "clientDrivingDistance"
    [] leg = "clientTransit" -> "clientTransitDistance"

LegUnresolved(result, leg) ==
  result[DurationOf(leg)] = None /\ result[DistanceOf(leg)] = None

\* C11: a leg whose routing call failed or returned no route is unresolved
\* (null) in the committed result, never 0 and never an older value: a
\* recomputation starts with every leg null, an answer that is not a route
\* leaves its leg null, a leg changes only when its own call is answered,
\* and the commit publishes the results as they are.
C11_FailedLegUnresolved ==
  [][/\ \A r \in DOMAIN runs' :
          IF r \notin DOMAIN runs
          THEN \A k \in DOMAIN runs'[r].pc : \A leg \in Legs :
                 LegUnresolved(runs'[r].result[k], leg)
          ELSE \A k \in DOMAIN runs[r].pc : \A leg \in Legs :
                 /\ (runs[r].pc[k] = leg /\ runs'[r].pc[k] # leg /\ failures' # failures)
                      => LegUnresolved(runs'[r].result[k], leg)
                 /\ runs[r].pc[k] # leg
                      => /\ runs'[r].result[k][DurationOf(leg)]
                              = runs[r].result[k][DurationOf(leg)]
                         /\ runs'[r].result[k][DistanceOf(leg)]
                              = runs[r].result[k][DistanceOf(leg)]
     /\ \A q \in DOMAIN runs : Commits(q) => SameResults(commuteData', runs[q].result)]_vars

\* the optimizer has moved the office of a roster that had its results, and
\* the recomputation it awaited has committed results in which the driving
\* call of an employee failed and its transit call succeeded
C11_Witness ==
  /\ alert = Some(OptimalCalculated)
  /\ committedFor # None /\ committedFor = lastRequest
  /\ committedFor[1].office # DefaultOffice
  /\ failures = 1
  /\ \E i \in DOMAIN commuteData :
       /\ LegUnresolved(commuteData[i], "driving")
       /\ ~LegUnresolved(commuteData[i], "transit")

\* a result without leg data: every duration, distance and step text is null
NoLegData(result) ==
  /\ \A leg \in Legs : LegUnresolved(result, leg)
  /\ result.transitSteps = None /\ result.clientTransitSteps = None

AllDone(r) == \A k \in DOMAIN runs[r].pc : runs[r].pc[k] = "done"

\* C12: a recomputation whose routing calls all failed (no result has a leg
\* value when its promises have resolved) can commit, and its commit
\* replaces the committed results by one result without leg data for each
\* employee of the request, with both averages 0: nothing computed for an
\* earlier office location remains.
C12_OutageStillCommits ==
  /\ [](\A r \in DOMAIN runs : AllDone(r) => ENABLED Commit(r))
  /\ [][\A r \in DOMAIN runs :
          (Commits(r) /\ \A k \in DOMAIN runs[r].result : NoLegData(runs[r].result[k]))
            => /\ Len(commuteData') = Len(runs[r].employeesWithCoords)
               /\ \A i \in DOMAIN commuteData' :
                    /\ NoLegData(commuteData'[i])
                    /\ \E k \in DOMAIN runs[r].employeesWithCoords :
                         commuteData'[i] = InitialResult(runs[r].employeesWithCoords[k])
               /\ averageDrivingCommute' = 0 /\ averageTransitCommute' = 0
               /\ committedFor' = Request(runs[r].office, runs[r].employeeList)]_vars

\* the roster had its results, the optimizer moved the office, the only
\* routing call of the recomputation it started failed, and that
\* recomputation has committed
C12_Witness ==
  /\ alert = Some(OptimalCalculated)
  /\ committedFor # None /\ committedFor = lastRequest
  /\ committedFor[1].office # DefaultOffice
  /\ DOMAIN runs = {}
  /\ commuteData # <<>>
  /\ \A i \in DOMAIN commuteData : NoLegData(commuteData[i])

\* the messages by which a handler tells the user that its work failed
FailureMessages == {ErrorSearching, ErrorCalculating}

TotalOutage(r) ==
  \A k \in DOMAIN runs[r].result : NoLegData(runs[r].result[k])

\* C13: when a recomputation returns to its caller after all its routing
\* calls failed, a failure message is shown in that step; when only some
\* failed, none is.
C13_OutageReported ==
  [][\A r \in DOMAIN runs :
       Commits(r) =>
         IF TotalOutage(r)
         THEN alert' # None /\ alert'[1] \in FailureMessages
         ELSE alert' = alert \/ alert'[1] \notin FailureMessages]_vars

\* C14: the committed results change only when a recomputation commits,
\* which it does once (it is over afterwards) and only when every promise
\* of the request has resolved, publishing the result of every employee
\* of the request together; or when a request without any employee to
\* compute commits the empty list at once.
C14_CommitOnceWhenAllDone ==
  [][/\ \A r \in DOMAIN runs :
          Commits(r) => /\ AllDone(r)
                        /\ DOMAIN runs' = DOMAIN runs \ {r}
                        /\ SameResults(commuteData', runs[r].result)
                        /\ Len(commuteData') = Len(runs[r].employeesWithCoords)
     /\ (commuteData' # commuteData \/ committedFor' # committedFor)
          => \/ \E r \in DOMAIN runs : Commits(r)
             \/ /\ commuteData' = <<>>
                /\ lastRequest' = committedFor'
                /\ EmployeesWithCoords(committedFor'[1].employeeList) = <<>>]_vars

\* the results of a request with two employees are committed, one of them
\* with a failed leg, and no recomputation is in flight
C14_Witness ==
  /\ Len(commuteData) = 2
  /\ committedFor # None /\ Len(EmployeesWithCoords(committedFor[1].employeeList)) = 2
  /\ DOMAIN runs = {}
  /\ failures = 1

\* the committed results whose `field` is resolved, and the sum of their values
ResolvedResults(field) == { i \in DOMAIN commuteData : commuteData[i][field] # None }

RECURSIVE TotalOf(_, _)
TotalOf(S, field) ==
  IF S = {} THEN 0
  ELSE LET i == CHOOSE x \in S : TRUE
       IN commuteData[i][field][1] + TotalOf(S \ {i}, field)

MeanOfResolved(field) ==
  IF ResolvedResults(field) = {} THEN 0
  ELSE Round(TotalOf(ResolvedResults(field), field), Cardinality(ResolvedResults(field)))

\* C15: each average is the rounded quotient of the sum of the resolved
\* main office durations of its mode by the number of results in which that
\* duration is resolved (0 when there is none); an unresolved leg adds
\* nothing to the sum and nothing to the count.
C15_AveragesOverResolved ==
  /\ averageDrivingCommute = MeanOfResolved("drivingDuration")
  /\ averageTransitCommute = MeanOfResolved("transitDuration")

\* two results are committed, the driving leg resolved in one of them only,
\* and the transit leg in both
C15_Witness ==
  /\ Len(commuteData) = 2
  /\ Cardinality(ResolvedResults("drivingDuration")) = 1
  /\ Cardinality(ResolvedResults("transitDuration")) = 2
  /\ averageDrivingCommute > 0

\* C16: the list shown (the committed results, sorted by the render) is in
\* descending order of the main office driving duration, and a result whose
\* driving duration is unresolved stands after every result in which it is
\* resolved, a duration of 0 minutes included.
C16_RankingUnresolvedLast ==
  \A i, j \in DOMAIN commuteData :
    (i < j /\ commuteData[j].drivingDuration # None)
      => /\ commuteData[i].drivingDuration # None
         /\ commuteData[i].drivingDuration[1] >= commuteData[j].drivingDuration[1]

\* the employees of the roster with a resolved home coordinate, and the sum
\* of one coordinate (1: lng, 2: lat) over a set of them
Resolved == { i \in DOMAIN employees : employees[i].lat # None /\ employees[i].lng # None }

RECURSIVE CoordinateSum(_, _)
CoordinateSum(S, c) ==
  IF S = {} THEN 0
  ELSE LET i == CHOOSE x \in S : TRUE
       IN (IF c = 1 THEN employees[i].lng[1] ELSE employees[i].lat[1])
          + CoordinateSum(S \ {i}, c)

\* the mean coordinate of the resolved employees, on the coordinate grid
Centroid ==
  <<Quotient(CoordinateSum(Resolved, 1), Cardinality(Resolved)),
    Quotient(CoordinateSum(Resolved, 2), Cardinality(Resolved))>>

\* C17: when the optimizer suggests a coordinate (it moves the office and
\* awaits the recomputation), the coordinate is the mean longitude and the
\* mean latitude of exactly the employees with a resolved home coordinate,
\* coordinates with a latitude or longitude of 0 included.
C17_OptimizerIsCentroid ==
  [][(calculateOptimalLocation /\ Resolved # {}) => officeLocation' = Centroid]_vars

\* C18: a click on the optimize button for a roster that is empty or has no
\* employee with a resolved home coordinate leaves the office location, the
\* committed results and the recomputations as they are, starts no
\* recomputation, shows the no-coordinates (or no-roster) message and leaves
\* the optimizing flag cleared.
C18_OptimizerWithoutCoordinates ==
  [][(calculateOptimalLocation /\ Resolved = {})
       => /\ officeLocation' = officeLocation
          /\ UNCHANGED <<runs, lastRequest, commuteData, committedFor,
                         averageDrivingCommute, averageTransitCommute, employees>>
          /\ alert' \in {Some(NoCoordinates), Some(PleaseUpload)}
          /\ isOptimizing' = FALSE]_vars

\* the optimize button was clicked while the roster was being geocoded (a
\* drag had cleared the loading flag): the no-coordinates message is shown,
\* the office is where the drag left it and nothing is being optimized
C18_Witness ==
  /\ alert = Some(NoCoordinates)
  /\ ~isOptimizing
  /\ officeLocation \in DragTargets
  /\ employees # <<>> /\ Resolved = {}
  /\ DOMAIN runs = {}

\* C19: during one import no address text is sent to the geocoding service
\* twice, also when several employees of the roster share an address.
C19_OneQueryPerAddress ==
  \A id \in DOMAIN imports :
    \A m, n \in DOMAIN imports[id].queried :
      imports[id].queried[m] = imports[id].queried[n] => m = n

\* a step of the roster import: the upload, or a step of the geocoding pass
\* up to the one in which it hands the roster over
ImportStep ==
  \/ uploads' # uploads
  \/ \E id \in DOMAIN imports :
       /\ imports[id].pc # "calc"
       /\ id \notin DOMAIN imports' \/ imports'[id] # imports[id]

\* C20: every step that is not a step of a roster import, so every move of
\* the office (drag end, search result, optimizer result) and every step of
\* the recomputation it starts, sends no roster address to the geocoding
\* service and leaves the roster with its coordinates as it is; the roster
\* changes only in import steps, to employees of the uploaded file.
C20_OfficeMoveKeepsCoordinates ==
  [][/\ ~ImportStep
          => /\ employees' = employees
             /\ \A id \in DOMAIN imports' :
                  id \in DOMAIN imports /\ imports'[id].queried = imports[id].queried
     /\ employees' # employees
          => \/ \E file \in CsvFiles : employees' = ParseCsv(file)
             \/ \E id \in DOMAIN imports :
                  \A i \in DOMAIN employees' : \E k \in DOMAIN imports[id].employeeData :
                    /\ imports[id].employeeData[k].id = employees'[i].id
                    /\ imports[id].employeeData[k].address = employees'[i].address]_vars

\* the office was dragged when the import was over and the roster resolved;
\* every call of the recomputation the drag started has returned, and the
\* roster is the one the recomputation was started with
C20_Witness ==
  /\ DOMAIN imports = {}
  /\ Resolved # {}
  /\ \E r \in DOMAIN runs :
       /\ runs[r].caller.kind = "drag"
       /\ runs[r].office = officeLocation
       /\ AllDone(r)
       /\ \E k \in DOMAIN runs[r].result : ~LegUnresolved(runs[r].result[k], "driving")
       /\ runs[r].employeeList = employees

\* C21: a main office transit call that is answered by anything but a route
\* (a failed call, a non-2xx status, no itinerary, no leg) leaves the transit
\* duration, distance and summary unresolved, keeps the driving leg, does not
\* end the employee's promise, and the client office calls follow when the
\* employee has a client office.
C21_TransitFailureAbsorbed ==
  [][\A r \in DOMAIN runs \cap DOMAIN runs' : \A k \in DOMAIN runs[r].pc :
       (runs[r].pc[k] = "transit" /\ runs'[r].pc[k] # "transit" /\ failures' # failures)
         => /\ LegUnresolved(runs'[r].result[k], "transit")
            /\ runs'[r].result[k].transitSteps = None
            /\ runs'[r].result[k].drivingDuration = runs[r].result[k].drivingDuration
            /\ runs'[r].result[k].drivingDistance = runs[r].result[k].drivingDistance
            /\ runs'[r].pc[k] # "done"
            /\ HasClientOffice(runs[r].employeesWithCoords[k])
                 => runs'[r].pc[k] = "clientDriving"]_vars

\* results are committed in which an employee's transit call failed, its
\* driving leg is resolved and both client office legs are resolved
C21_Witness ==
  /\ failures = 1
  /\ \E i \in DOMAIN commuteData :
       /\ LegUnresolved(commuteData[i], "transit")
       /\ commuteData[i].transitSteps = None
       /\ ~LegUnresolved(commuteData[i], "driving")
       /\ ~LegUnresolved(commuteData[i], "clientDriving")
       /\ ~LegUnresolved(commuteData[i], "clientTransit")

\* the longest step list the summary is computed for below
MaxSteps == 3

\* the kinds of step a leg is made of
StepKinds ==
  {Walk, BareRide, Ride("T1", "North Shore Line", "Central", "Wynyard"),
   Ride("", "Bus 370", "Wynyard", "Office")}

StepLists == UNION {[1..n -> StepKinds] : n \in 0..MaxSteps}

\* the rides of a step list, first to last: a step counts when it is a
\* transit step that carries line details, and is rendered as its line (the
\* short name, or the name when there is no short name), its departure stop
\* and its arrival stop
RECURSIVE Rides(_)
Rides(steps) ==
  IF steps = <<>> THEN <<>>
  ELSE LET s == Head(steps)
       IN IF s.travel_mode = "TRANSIT" /\ s.transit_details # None
          THEN <<<<IF s.transit_details[1].short_name = ""
                   THEN s.transit_details[1].name
                   ELSE s.transit_details[1].short_name,
                   s.transit_details[1].departure_stop,
                   s.transit_details[1].arrival_stop>>>> \o Rides(Tail(steps))
          ELSE Rides(Tail(steps))

SummaryOf(steps) == IF Rides(steps) = <<>> THEN None ELSE Some(Rides(steps))

SummaryOnStepLists == \A steps \in StepLists : TransitSummary(steps) = SummaryOf(steps)

\* C22: the transit summary of a resolved transit leg is the sequence of the
\* rides of the leg's steps in their order, and is unresolved when the leg
\* has no ride; this holds of every step list up to MaxSteps steps, and of
\* the main and client office legs of every recomputation.
C22_TransitSummary ==
  /\ SummaryOnStepLists
  /\ \A r \in DOMAIN runs : \A k \in DOMAIN runs[r].pc :
       LET e == runs[r].employeesWithCoords[k]
           result == runs[r].result[k]
       IN /\ ~LegUnresolved(result, "transit")
               => result.transitSteps = SummaryOf(LegSteps(Home(e), runs[r].office))
          /\ ~LegUnresolved(result, "clientTransit")
               => result.clientTransitSteps
                    = SummaryOf(LegSteps(Home(e), ClientOffice(e)))

\* committed results hold a transit leg whose summary lists two rides, the
\* second named by its line's name, and a walked transit leg without summary
C22_Witness ==
  /\ \E i \in DOMAIN commuteData :
       /\ ~LegUnresolved(commuteData[i], "transit")
       /\ commuteData[i].transitSteps
            = Some(<<<<"T1", "Central", "Wynyard">>, <<"Bus 370", "Wynyard", "Office">>>>)
  /\ \E i \in DOMAIN commuteData :
       /\ ~LegUnresolved(commuteData[i], "clientTransit")
       /\ commuteData[i].clientTransitSteps = None

\* C23: while every routing call has been answered with a route (no failure
\* has occurred), a recomputation that commits for the office and the roster
\* the committed results were computed for commits the same results and the
\* same averages: a step that leaves the committed request as it is leaves
\* the committed results and both averages as they are.
C23_RecomputationIdempotent ==
  [][(committedFor # None /\ committedFor' = committedFor /\ failures' = 0)
       => /\ commuteData' = commuteData
          /\ averageDrivingCommute' = averageDrivingCommute
          /\ averageTransitCommute' = averageTransitCommute]_vars

\* results are committed with resolved legs, and a later recomputation for
\* the same office and the same roster has all its answers, equal to the
\* committed results, and commits next
C23_Witness ==
  /\ failures = 0
  /\ commuteData # <<>>
  /\ \A i \in DOMAIN commuteData : ~LegUnresolved(commuteData[i], "driving")
  /\ averageDrivingCommute > 0
  /\ \E r \in DOMAIN runs :
       /\ AllDone(r)
       /\ committedFor = Request(runs[r].office, runs[r].employeeList)
       /\ SortByDriving(runs[r].result) = commuteData
       /\ ENABLED Commit(r)

\* C24: in every reachable state the two stored averages are the averages
\* of the committed results, whichever recomputations have committed and in
\* whichever order; and the averages never change in a step that leaves the
\* committed results as they are.
C24_AveragesOfCommittedResults ==
  /\ [](/\ averageDrivingCommute = Average(commuteData, "drivingDuration")
        /\ averageTransitCommute = Average(commuteData, "transitDuration"))
  /\ [][(\/ averageDrivingCommute' # averageDrivingCommute
         \/ averageTransitCommute' # averageTransitCommute)
          => commuteData' # commuteData]_vars

\* two recomputations have overlapped and both have ended; the one that
\* committed last was not the latest request, and its results and averages
\* are the ones stored
C24_Witness ==
  /\ DOMAIN runs = {}
  /\ committedFor # None /\ lastRequest # None
  /\ committedFor[1].office # lastRequest[1].office
  /\ commuteData # <<>>
  /\ averageDrivingCommute > 0
  /\ averageTransitCommute > 0

\* C25: in every state in which a recomputation or an import is in flight,
\* the office search can be started, and so can the optimizer when there is
\* a roster: neither control is disabled by the running work.
C25_TriggersNeverRefused ==
  (DOMAIN runs # {} \/ DOMAIN imports # {})
    => /\ ~SearchDisabled
       /\ Len(employees) # 0 => ~OptimizeDisabled

\* files the parsing is computed for: the uploaded ones, and files without a
\* header, with leading and repeated blank lines, with short rows and with
\* white space around a name
CsvSamples ==
  CsvFiles \cup
  { << <<" ">> >>,
    << <<"Home", "Ann", "">>, <<"Far", "Bob", "">> >>,
    <<Header, <<" ">>, <<"Home", " Bob">>, <<" ">>, <<"Far", "", "Client">>, <<"Zero">> >>,
    <<Header, <<"Home", " ", " ">>, <<"">>, <<"", "Ann", "Client">> >> }

\* the employees made of the lines `lines`, `n` employees having been made
\* of the lines before them: a blank line makes none, any other line makes
\* the employee with id n
RECURSIVE EmployeesOf(_, _)
EmployeesOf(lines, n) ==
  IF lines = <<>> THEN <<>>
  ELSE IF Len(Head(lines)) = 1 /\ Head(lines)[1] \in {"", " "}
  THEN EmployeesOf(Tail(lines), n)
  ELSE LET row == Head(lines)
           second == IF Len(row) >= 2 THEN Trim(row[2]) ELSE ""
           third == IF Len(row) >= 3 THEN Trim(row[3]) ELSE ""
       IN << [id |-> n,
              address |-> Trim(row[1]),
              name |-> IF second = "" THEN PlaceholderName(n + 1) ELSE second,
              lat |-> None, lng |-> None,
              clientOfficeAddress |-> IF third = "" THEN None ELSE Some(third),
              clientOfficeLat |-> None, clientOfficeLng |-> None] >>
          \o EmployeesOf(Tail(lines), n + 1)

UniqueIds(roster) ==
  \A i, j \in DOMAIN roster : roster[i].id = roster[j].id => i = j

ParsedSamples ==
  \A file \in CsvSamples :
    /\ ParseCsv(file) = EmployeesOf(Tail(file), 0)
    /\ UniqueIds(ParseCsv(file))

Geocodes(id) ==
  /\ id \in DOMAIN imports /\ imports[id].pc # "calc"
  /\ id \notin DOMAIN imports' \/ imports'[id] # imports[id]

\* the step ends the geocoding of import `id`
EndsGeocoding(id) == id \notin DOMAIN imports' \/ imports'[id].pc = "calc"

\* C27: no answer of the geocoding service ends an import early: while an
\* employee of the file is left the import goes on, by one employee at most
\* and with that employee's home address sent; a client office address that
\* throws or has no match leaves the employee in the roster with its home
\* coordinate and no client office coordinate; and the step that ends the
\* geocoding stores the geocoded roster and requests the recomputation for
\* it.
C27_ImportSurvivesFailures ==
  [][\A id \in DOMAIN imports : Geocodes(id) =>
       LET imp == imports[id]
       IN /\ imp.i < Len(imp.employeeData)
               => /\ ~EndsGeocoding(id)
                  /\ imports'[id].i \in {imp.i, imp.i + 1}
                  /\ imports'[id].i = imp.i + 1
                       => /\ imports'[id].pc = "home"
                          /\ imports'[id].queried
                               = Append(imp.queried, imp.employeeData[imp.i + 1].address)
          /\ (imp.pc = "client" /\ failures' # failures)
               => /\ ~EndsGeocoding(id)
                  /\ imports'[id].geocodedEmployees
                       = Append(imp.geocodedEmployees, imp.geocodedEmployee[1])
                  /\ imp.geocodedEmployee[1].lat # None
                  /\ NoClientCoordinate(imp.geocodedEmployee[1])
          /\ (imp.pc = "clientDelay"
                /\ GeocodeCenter(imp.geocodedEmployee[1].clientOfficeAddress[1]) = None)
               => /\ imp.geocodedEmployee[1].lat # None
                  /\ NoClientCoordinate(imp.geocodedEmployee[1])
                  /\ LET roster == IF EndsGeocoding(id) THEN employees'
                                   ELSE imports'[id].geocodedEmployees
                     IN roster = Append(imp.geocodedEmployees, imp.geocodedEmployee[1])
          /\ EndsGeocoding(id)
               => /\ imp.i = Len(imp.employeeData)
                  /\ Len(employees') >= Len(imp.geocodedEmployees)
                  /\ SubSeq(employees', 1, Len(imp.geocodedEmployees)) = imp.geocodedEmployees
                  /\ employees' # <<>>
                       => /\ lastRequest' # None
                          /\ lastRequest'[1].employeeList = employees']_vars

\* the home address query of the first of two employees has thrown; the
\* second has been geocoded, makes the roster, and the recomputation has
\* been requested for it
C27_Witness ==
  \E id \in DOMAIN imports :
    /\ imports[id].pc = "calc"
    /\ Len(imports[id].employeeData) = 2
    /\ GeocodeCenter(imports[id].employeeData[1].address) # None
    /\ Len(employees) = 1
    /\ employees[1].id = imports[id].employeeData[2].id
    /\ employees[1].lat # None
    /\ lastRequest # None /\ lastRequest[1].employeeList = employees

\* while no service call has failed, every employee an import is done with
\* whose home address has a match outside the region is in the geocoded
\* roster with the coordinate of the match
OutOfRegionInRoster ==
  \A id \in DOMAIN imports :
    LET imp == imports[id]
        done == IF imp.pc = "calc" THEN Len(imp.employeeData) ELSE imp.i - 1
    IN \A k \in 1..done :
         LET center == GeocodeCenter(imp.employeeData[k].address)
         IN (failures = 0 /\ center # None /\ ~IsInSydney(center[1]))
              => \E j \in DOMAIN imp.geocodedEmployees :
                   /\ imp.geocodedEmployees[j].id = imp.employeeData[k].id
                   /\ Home(imp.geocodedEmployees[j]) = center[1]

C29_ImportUsesCurrentOffice ==
  [][\A id \in DOMAIN imports :
       (Geocodes(id) /\ EndsGeocoding(id) /\ employees' # <<>>)
         => /\ lastRequest' # None
            /\ lastRequest'[1].employeeList = employees'
            /\ lastRequest'[1].office = officeLocation]_vars

\* the step calls calculateCommuteTimes with an empty employee list: an
\* upload or the end of a geocoding pass that leaves no employee
EmptyRequest ==
  /\ employees' = <<>>
  /\ \/ uploads' # uploads /\ DOMAIN imports' = DOMAIN imports
     \/ \E id \in DOMAIN imports : Geocodes(id) /\ EndsGeocoding(id)

\* C30: a recomputation request with an empty employee list starts no
\* recomputation (no routing call is issued, none in flight is superseded),
\* is not recorded as a request, and leaves the committed results, both
\* averages and what they were committed for as they are; the loading flag
\* is not set by it: the caller, which clears the flag when the call has
\* returned (line 571), leaves it false in the same step.
C30_EmptyRequestIsNoOp ==
  [][EmptyRequest
       => /\ UNCHANGED <<runs, lastRequest, committedFor, commuteData,
                         averageDrivingCommute, averageTransitCommute>>
          /\ ~isLoading'
          /\ DOMAIN imports' = DOMAIN imports \ {id \in DOMAIN imports : Geocodes(id)}]_vars

\* a file has been uploaded whose import left no employee; the import has
\* ended, nothing was requested, nothing is committed and nothing is loading
C30_Witness ==
  /\ uploads = 1
  /\ employees = <<>>
  /\ DOMAIN imports = {} /\ DOMAIN runs = {}
  /\ lastRequest = None /\ committedFor = None
  /\ commuteData = <<>>
  /\ ~isLoading

\* a search is in progress: its query is in flight, or the recomputation it
\* awaits is
Searching ==
  search # None \/ \E r \in DOMAIN runs : runs[r].caller.kind = "search"

\* C31: the answer to an office address query that has thrown or has no
\* match leaves the office location, the committed results and averages
\* and the recomputations as they are and requests none; and the searching
\* flag is set exactly while a search is in progress, so it is cleared when
\* the search ends, whatever its outcome.
C31_FailedSearchChangesNothing ==
  /\ [](isSearchingOffice <=> Searching)
  /\ [][(search # None /\ search' = None
           /\ (failures' # failures \/ GeocodeCenter(search[1]) = None))
          => /\ UNCHANGED <<officeLocation, commuteData, averageDrivingCommute,
                            averageTransitCommute, committedFor, lastRequest, runs>>
             /\ ~isSearchingOffice'
             /\ alert' \in {Some(AddressNotFound), Some(ErrorSearching)}]_vars

\* results are committed for a roster; a later search has thrown: the flag
\* is cleared, and the office and the results are those of before
C31_Witness ==
  /\ alert = Some(ErrorSearching)
  /\ ~isSearchingOffice /\ search = None
  /\ commuteData # <<>>
  /\ committedFor # None /\ committedFor = lastRequest
  /\ committedFor[1].office = officeLocation
  /\ DOMAIN runs = {}

\* the requests, keys and upstream behaviours the relay is computed for: each
\* parameter absent, empty or a point; the key absent, empty or set
RelayParameters == {None, Some(<<>>), Some(<<-34, 151>>), Some(<<-37, 151>>)}
RelayKeys == {None, Some(<<>>), Some(<<"key">>)}
RelayUpstream == UpstreamResponses(<<151, -34>>, <<151, -37>>)

RelayAnswers ==
  \A origin \in RelayParameters, destination \in RelayParameters :
    \A key \in RelayKeys, upstream \in RelayUpstream :
      LET response == GET(origin, destination, key, upstream)
          incomplete == origin \in {None, Some(<<>>)} \/ destination \in {None, Some(<<>>)}
          keyless == key \in {None, Some(<<>>)}
      IN /\ response.status \in {200, 400, 500}
         /\ incomplete => response.status = 400 /\ ~response.fetched
         /\ (~incomplete /\ keyless) => response.status = 500 /\ ~response.fetched
         /\ (~incomplete /\ ~keyless /\ upstream.kind \in {"throw", "status"})
              => response.status = 500 /\ response.fetched
         /\ (~incomplete /\ ~keyless /\ upstream.kind \notin {"throw", "status"})
              => /\ response.status = 200 /\ response.fetched
                 /\ response.data = Some(upstream)
         /\ response.status # 200 => response.data = None /\ response.error # None

\* C32: the relay answers 400 without calling the upstream service when a
\* parameter is missing, 500 without calling it when no key is configured,
\* 500 when the upstream call throws or is answered non-2xx, and the
\* upstream body as it is otherwise; it has an answer in every case.  The
\* page's transit legs hold what the upstream body says.
C32_RelayPassesThrough ==
  /\ RelayAnswers
  /\ \A r \in DOMAIN runs : \A k \in DOMAIN runs[r].pc :
       LET e == runs[r].employeesWithCoords[k]
           result == runs[r].result[k]
       IN /\ ~LegUnresolved(result, "transit")
               => \E upstream \in UpstreamResponses(Home(e), runs[r].office) :
                    /\ upstream.kind = "route"
                    /\ result.transitDuration = Some(Minutes(upstream.duration))
                    /\ result.transitDistance = Some(KmTenths(upstream.distance))
          /\ ~LegUnresolved(result, "clientTransit")
               => \E upstream \in UpstreamResponses(Home(e), ClientOffice(e)) :
                    /\ upstream.kind = "route"
                    /\ result.clientTransitDuration = Some(Minutes(upstream.duration))
                    /\ result.clientTransitDistance = Some(KmTenths(upstream.distance))

\* results are committed in which the relay has passed on a route for the
\* main office leg and has not for the client office leg
C32_Witness ==
  /\ failures = 1
  /\ \E i \in DOMAIN commuteData :
       /\ ~LegUnresolved(commuteData[i], "transit")
       /\ commuteData[i].transitSteps # None
       /\ ~LegUnresolved(commuteData[i], "clientDriving")
       /\ LegUnresolved(commuteData[i], "clientTransit")

\* C33: whenever an import or a recomputation is in flight the loading flag
\* is true.
C33_LoadingWhileInFlight ==
  (DOMAIN runs # {} \/ DOMAIN imports # {}) => isLoading

\* C34: whenever no import and no recomputation is in flight, every
\* committed result is the result of an employee of the roster, with the
\* coordinates the roster has for it.
C34_ResultsOfCurrentRoster ==
  (DOMAIN runs = {} /\ DOMAIN imports = {})
    => \A j \in DOMAIN commuteData : \E i \in DOMAIN employees :
         /\ employees[i].id = commuteData[j].id
         /\ employees[i].address = commuteData[j].address
         /\ employees[i].lat = commuteData[j].lat
         /\ employees[i].lng = commuteData[j].lng
         /\ employees[i].clientOfficeLat = commuteData[j].clientOfficeLat
         /\ employees[i].clientOfficeLng = commuteData[j].clientOfficeLng

\* the geocoding passes in progress
Geocoding == { id \in DOMAIN imports : imports[id].pc # "calc" }

\* C35: at most one geocoding pass is in progress at any time, and a pass
\* that ends and stores its roster is not an earlier one than an import
\* still in progress (import ids are given in the order of the uploads).
C35_OneImportAtATime ==
  /\ [](Cardinality(Geocoding) <= 1)
  /\ [][\A id \in DOMAIN imports :
          (Geocodes(id) /\ EndsGeocoding(id))
            => \A later \in DOMAIN imports : later <= id]_vars

\* C36: provided every call is answered or fails, every recomputation in
\* flight, whatever legs fail, ends by committing; and the step in which it
\* commits stores results for its request and clears the loading flag.
C36_RecomputationCommits ==
  /\ \A r \in RunIds : (r \in DOMAIN runs) ~> (r \notin DOMAIN runs)
  /\ [][\A r \in DOMAIN runs :
          Commits(r) => /\ AllDone(r)
                        /\ ~isLoading'
                        /\ committedFor' = Request(runs[r].office, runs[r].employeeList)
                        /\ SameResults(commuteData', runs[r].result)]_vars

\* a recomputation in which a driving call has thrown has committed: the
\* employee's result has no leg at all, and nothing is loading
C36_Witness ==
  /\ failures = 1
  /\ DOMAIN runs = {} /\ ~isLoading
  /\ committedFor # None
  /\ \E i \in DOMAIN commuteData : \A leg \in Legs : LegUnresolved(commuteData[i], leg)

\* the positions of an employee's promise, and the moves between them: the
\* four calls in their order, each followed by a delay; a call that fails
\* is followed by what follows its try block
Positions ==
  {"driving", "delay1", "transit", "clientDriving", "delay2", "clientTransit",
   "delay3", "done"}
Moves ==
  { <<"driving", "delay1">>, <<"driving", "done">>, <<"delay1", "transit">>,
    <<"transit", "clientDriving">>, <<"transit", "delay3">>,
    <<"clientDriving", "delay2">>, <<"clientDriving", "delay3">>,
    <<"delay2", "clientTransit">>, <<"clientTransit", "delay3">>,
    <<"delay3", "done">> }

\* C37: an employee's promise is at one position at a time, so at most one
\* of its routing calls is in flight; it starts at the main driving call
\* and moves on in the order main driving, main transit, client driving,
\* client transit, one position a step; a step moves one employee of one
\* recomputation and never waits for another employee.
C37_CallsInOrder ==
  /\ [](\A p \in Promises : runs[p[1]].pc[p[2]] \in Positions)
  /\ [][\A r \in DOMAIN runs' :
          IF r \notin DOMAIN runs
          THEN \A k \in DOMAIN runs'[r].pc : runs'[r].pc[k] = "driving"
          ELSE \A k \in DOMAIN runs[r].pc :
                 \/ runs'[r].pc[k] = runs[r].pc[k]
                 \/ /\ <<runs[r].pc[k], runs'[r].pc[k]>> \in Moves
                    /\ \A j \in DOMAIN runs[r].pc \ {k} : runs'[r].pc[j] = runs[r].pc[j]]_vars

\* in one recomputation the second employee is at its client office
\* transit call while the first still awaits its main driving call
C37_Witness ==
  \E r \in DOMAIN runs :
    /\ Len(runs[r].employeesWithCoords) = 2
    /\ runs[r].pc[1] = "driving"
    /\ runs[r].pc[2] \in {"transit", "clientTransit"}

\* the committed results with the field `field` unresolved in all of them
Unresolving(field) ==
  [i \in DOMAIN commuteData |-> [commuteData[i] EXCEPT ![field] = None]]

\* C38: an average is 0 when no committed result has its mode's duration
\* resolved, and a number in every case; and it is what it would be if the
\* other mode's duration were unresolved in every result.
C38_AverageOfEmptyModeIsZero ==
  /\ averageDrivingCommute \in Nat /\ averageTransitCommute \in Nat
  /\ ResolvedResults("drivingDuration") = {} => averageDrivingCommute = 0
  /\ ResolvedResults("transitDuration") = {} => averageTransitCommute = 0
  /\ averageDrivingCommute = Average(Unresolving("transitDuration"), "drivingDuration")
  /\ averageTransitCommute = Average(Unresolving("drivingDuration"), "transitDuration")
  /\ Average(Unresolving("drivingDuration"), "drivingDuration") = 0
  /\ Average(Unresolving("transitDuration"), "transitDuration") = 0

\* results are committed in which no driving duration is resolved and a
\* transit duration is: the driving average is 0, the transit average is not
C38_Witness ==
  /\ commuteData # <<>>
  /\ ResolvedResults("drivingDuration") = {}
  /\ ResolvedResults("transitDuration") # {}
  /\ averageDrivingCommute = 0
  /\ averageTransitCommute > 0

\* C39: the results a recomputation commits are in the order of the
\* employees of its snapshot: the i-th committed result is the result of
\* the i-th employee with valid coordinates.
C39_ResultsInRosterOrder ==
  [][\A r \in DOMAIN runs :
       Commits(r)
         => /\ Len(commuteData') = Len(runs[r].employeesWithCoords)
            /\ \A i \in DOMAIN commuteData' :
                 commuteData'[i].id = runs[r].employeesWithCoords[i].id]_vars

====
